---- MODULE Spec2Model ----
(***************************************************************************)
(* Model of the leg-raise frame controller, ProcessFrame, of               *)
(* src/process_frame_leg_raises.py with the threshold profiles of          *)
(* src/thresholds.py.                                                      *)
(*                                                                         *)
(* One step of the model is one call of ProcessFrame.process().  The pose  *)
(* estimator and the geometry helpers are inputs of a call: whether        *)
(* landmarks were found, the offset angle, the hip flexion angle           *)
(* (hip_vertical), knee_flexion, torso_tilt, and the time dt that passed   *)
(* on time.perf_counter() since the previous call.                         *)
(*                                                                         *)
(* Time is counted in units of 0.1 s (5.0 s = 50, 15.0 s = 150).  All      *)
(* perf_counter() readings of one call are taken to be the same instant.   *)
(* Timestamps are kept relative to the current instant: the reading of     *)
(* the current call is 0 and a stored timestamp is <= 0, so that           *)
(* "now - stamp" of the code is "0 - stamp" here.  Advance moves the       *)
(* stored timestamps back by dt at the start of a call.                    *)
(*                                                                         *)
(* Python's None is "None" for the states and the empty tuple <<>> for the *)
(* nullable numbers (a set number v is <<v>>).                             *)
(***************************************************************************)
EXTENDS Integers, Sequences, FiniteSets, TLC

VARIABLES
    thresholds,     \* the profile handed to __init__
    state_tracker,  \* self.state_tracker
    play_sound,     \* the event returned by the last call of process()
    banners,        \* the feedback banners drawn by the last call (_show_feedback)
    hard_reset,     \* whether the last call ran _hard_reset_all
    frame,          \* what the last call was given: the kind of frame, the state it
                    \* was classified as, its hip angle
    nframes,        \* number of calls of process() so far
    mon             \* observers of the history, one group per specification

vars == <<thresholds, state_tracker, play_sound, banners, hard_reset, frame, nframes, mon>>

-----------------------------------------------------------------------------
(* Bounds of the model *)

\* calls of process() in one behaviour of Spec
MaxFrames == 6

-----------------------------------------------------------------------------
(* Threshold profiles, src/thresholds.py *)

get_thresholds_leg_raises_beginner ==
    [ HIP_KNEE_VERT    |-> [NORMAL |-> <<0, 15>>, TRANS |-> <<16, 60>>, PASS |-> <<61, 95>>],
      KNEE_LOCK_MAX    |-> 20,
      TORSO_TILT_MAX   |-> 25,
      REP_MIN_RANGE    |-> 35,
      HOLD_SEC         |-> 10,
      OFFSET_THRESH    |-> 35,
      INACTIVE_THRESH  |-> 150,
      CNT_FRAME_THRESH |-> 50 ]

get_thresholds_leg_raises_pro ==
    [ HIP_KNEE_VERT    |-> [NORMAL |-> <<0, 20>>, TRANS |-> <<21, 75>>, PASS |-> <<76, 95>>],
      KNEE_LOCK_MAX    |-> 15,
      TORSO_TILT_MAX   |-> 20,
      REP_MIN_RANGE    |-> 40,
      HOLD_SEC         |-> 15,
      OFFSET_THRESH    |-> 35,
      INACTIVE_THRESH  |-> 150,
      CNT_FRAME_THRESH |-> 50 ]

\* profiles that ask for more range than their bands span from NORMAL to PASS
ProfilesWideRange ==
    { [get_thresholds_leg_raises_beginner EXCEPT !.REP_MIN_RANGE = 50],
      [get_thresholds_leg_raises_pro EXCEPT !.REP_MIN_RANGE = 60] }

Profiles == {get_thresholds_leg_raises_beginner, get_thresholds_leg_raises_pro}

\* TARGET_HOLD = 5.0 seconds, the fixed hold timer of process()
TARGET_HOLD == 50

-----------------------------------------------------------------------------
(* Helpers *)

None == <<>>
Some(v) == <<v>>
Min2(a, b) == IF a <= b THEN a ELSE b
Max2(a, b) == IF a >= b THEN a ELSE b

Feedback == 0 .. 3   \* keys of FEEDBACK_ID_MAP

\* seq.count(x)
Count(seq, x) == Cardinality({i \in DOMAIN seq : seq[i] = x})
\* x in seq
In(x, seq) == \E i \in DOMAIN seq : seq[i] = x

\* state_tracker as __init__ leaves it
InitTracker ==
    [ state_seq                 |-> <<>>,
      prev_state                |-> "None",
      curr_state                |-> "None",
      s3_enter_time             |-> None,
      s3_hold_ok                |-> FALSE,
      rep_min_angle             |-> None,
      rep_max_angle             |-> None,
      start_inactive_time       |-> 0,
      INACTIVE_TIME             |-> 0,
      start_inactive_time_front |-> 0,
      INACTIVE_TIME_FRONT       |-> 0,
      DISPLAY_TEXT              |-> [i \in Feedback |-> FALSE],
      COUNT_FRAMES              |-> [i \in Feedback |-> 0],
      INCORRECT_POSTURE         |-> FALSE,
      CORRECT_COUNT             |-> 0,
      INCORRECT_COUNT           |-> 0 ]

\* dt passes on the clock: every stored timestamp lies dt further in the past.
\* A running s3 timer is only ever compared with TARGET_HOLD, so its age is
\* kept up to TARGET_HOLD.
Advance(st, dt) ==
    [st EXCEPT
        !.start_inactive_time       = @ - dt,
        !.start_inactive_time_front = @ - dt,
        !.s3_enter_time             = IF @ = None THEN None
                                      ELSE Some(Max2(@[1] - dt, 0 - TARGET_HOLD))]

_get_state(th, hip_flex_vertical_angle) ==
    LET band == th.HIP_KNEE_VERT IN
    IF band.NORMAL[1] <= hip_flex_vertical_angle /\ hip_flex_vertical_angle <= band.NORMAL[2]
        THEN "s1"
    ELSE IF band.TRANS[1] <= hip_flex_vertical_angle /\ hip_flex_vertical_angle <= band.TRANS[2]
        THEN "s2"
    ELSE IF band.PASS[1] <= hip_flex_vertical_angle /\ hip_flex_vertical_angle <= band.PASS[2]
        THEN "s3"
    ELSE "None"

\* _update_state_sequence that does not take the s2 of the way down
UpdateStateSequenceNoReturn(state_seq, state) ==
    IF state = "s2" THEN
        IF ~In("s3", state_seq) /\ Count(state_seq, "s2") = 0
        THEN Append(state_seq, "s2")
        ELSE state_seq
    ELSE IF state = "s3" THEN
        IF ~In("s3", state_seq) /\ In("s2", state_seq)
        THEN Append(state_seq, "s3")
        ELSE state_seq
    ELSE state_seq

\* _update_state_sequence that takes an unclassified frame for an s2 frame
UpdateStateSequenceUnclassified(state_seq, state) ==
    IF state \in {"s2", "None"} THEN
        IF \/ (~In("s3", state_seq) /\ Count(state_seq, "s2") = 0)
           \/ (In("s3", state_seq) /\ Count(state_seq, "s2") = 1)
        THEN Append(state_seq, "s2")
        ELSE state_seq
    ELSE IF state = "s3" THEN
        IF ~In("s3", state_seq) /\ In("s2", state_seq)
        THEN Append(state_seq, "s3")
        ELSE state_seq
    ELSE state_seq

\* _update_state_sequence that takes every s2 frame
UpdateStateSequenceEveryS2(state_seq, state) ==
    IF state = "s2" THEN Append(state_seq, "s2")
    ELSE IF state = "s3" THEN
        IF ~In("s3", state_seq) /\ In("s2", state_seq)
        THEN Append(state_seq, "s3")
        ELSE state_seq
    ELSE state_seq

\* _update_state_sequence that takes s3 without an s2 before it
UpdateStateSequenceAnyS3(state_seq, state) ==
    IF state = "s2" THEN
        IF \/ (~In("s3", state_seq) /\ Count(state_seq, "s2") = 0)
           \/ (In("s3", state_seq) /\ Count(state_seq, "s2") = 1)
        THEN Append(state_seq, "s2")
        ELSE state_seq
    ELSE IF state = "s3" THEN
        IF ~In("s3", state_seq)
        THEN Append(state_seq, "s3")
        ELSE state_seq
    ELSE state_seq

\* the new state_seq
_update_state_sequence(state_seq, state) ==
    IF state = "s2" THEN
        IF \/ (~In("s3", state_seq) /\ Count(state_seq, "s2") = 0)
           \/ (In("s3", state_seq) /\ Count(state_seq, "s2") = 1)
        THEN Append(state_seq, "s2")
        ELSE state_seq
    ELSE IF state = "s3" THEN
        IF ~In("s3", state_seq) /\ In("s2", state_seq)
        THEN Append(state_seq, "s3")
        ELSE state_seq
    ELSE state_seq

\* _reset_live_flags that leaves the hold of the last attempt standing
ResetLiveFlagsKeepsHold(st) ==
    [st EXCEPT
        !.DISPLAY_TEXT      = [i \in Feedback |-> FALSE],
        !.COUNT_FRAMES      = [i \in Feedback |-> 0],
        !.INCORRECT_POSTURE = FALSE,
        !.s3_enter_time     = None,
        !.rep_min_angle     = None,
        !.rep_max_angle     = None]

_reset_live_flags(st) ==
    [st EXCEPT
        !.DISPLAY_TEXT      = [i \in Feedback |-> FALSE],
        !.COUNT_FRAMES      = [i \in Feedback |-> 0],
        !.INCORRECT_POSTURE = FALSE,
        !.s3_enter_time     = None,
        !.s3_hold_ok        = FALSE,
        !.rep_min_angle     = None,
        !.rep_max_angle     = None]

\* _hard_reset_all that keeps the last classified state as prev_state
HardResetShiftsState(st) ==
    [_reset_live_flags(
        [st EXCEPT
            !.CORRECT_COUNT   = 0,
            !.INCORRECT_COUNT = 0,
            !.state_seq       = <<>>,
            !.prev_state      = st.curr_state,
            !.curr_state      = "None"])
     EXCEPT
        !.INACTIVE_TIME             = 0,
        !.start_inactive_time       = 0,
        !.INACTIVE_TIME_FRONT       = 0,
        !.start_inactive_time_front = 0]

_hard_reset_all(st) ==
    [_reset_live_flags(
        [st EXCEPT
            !.CORRECT_COUNT   = 0,
            !.INCORRECT_COUNT = 0,
            !.state_seq       = <<>>,
            !.prev_state      = "None",
            !.curr_state      = "None"])
     EXCEPT
        !.INACTIVE_TIME             = 0,
        !.start_inactive_time       = 0,
        !.INACTIVE_TIME_FRONT       = 0,
        !.start_inactive_time_front = 0]

-----------------------------------------------------------------------------
(* process(), the path without landmarks *)

\* a result of process(): the tracker, the returned event, the banners drawn
Result(st, sound, drawn, reset) ==
    [st |-> st, play_sound |-> sound, banners |-> drawn, hard_reset |-> reset]

\* ProcessNoLandmarks that drops the open attempt
ProcessNoLandmarksDropsAttempt(st0, th) ==
    LET st1 == [st0 EXCEPT
                   !.INACTIVE_TIME       = @ + (0 - st0.start_inactive_time),
                   !.start_inactive_time = 0,
                   !.state_seq           = <<>>]
        display_inactivity == st1.INACTIVE_TIME >= th.INACTIVE_THRESH
    IN  IF display_inactivity
        THEN Result(_hard_reset_all(st1), "reset_counters", {}, TRUE)
        ELSE Result(st1, "None", {}, FALSE)

\* ProcessNoLandmarks that takes the last interval for the accumulated time
ProcessNoLandmarksLastInterval(st0, th) ==
    LET st1 == [st0 EXCEPT
                   !.INACTIVE_TIME       = 0 - st0.start_inactive_time,
                   !.start_inactive_time = 0]
        display_inactivity == st1.INACTIVE_TIME >= th.INACTIVE_THRESH
    IN  IF display_inactivity
        THEN Result(_hard_reset_all(st1), "reset_counters", {}, TRUE)
        ELSE Result(st1, "None", {}, FALSE)

ProcessNoLandmarks(st0, th) ==
    LET st1 == [st0 EXCEPT
                   !.INACTIVE_TIME       = @ + (0 - st0.start_inactive_time),
                   !.start_inactive_time = 0]
        display_inactivity == st1.INACTIVE_TIME >= th.INACTIVE_THRESH
    IN  IF display_inactivity
        THEN Result(_hard_reset_all(st1), "reset_counters", {}, TRUE)
        ELSE Result(st1, "None", {}, FALSE)

-----------------------------------------------------------------------------
(* process(), the misaligned path: offset_angle > OFFSET_THRESH *)

\* ProcessMisaligned that leaves the side-view accumulator alone
ProcessMisalignedKeepsSide(st0, th) ==
    LET st1 == [st0 EXCEPT
                   !.INACTIVE_TIME_FRONT       = @ + (0 - st0.start_inactive_time_front),
                   !.start_inactive_time_front = 0]
        fire == st1.INACTIVE_TIME_FRONT >= th.INACTIVE_THRESH
        st2 == IF fire THEN _hard_reset_all(st1) ELSE st1
    IN  Result(st2, IF fire THEN "reset_counters" ELSE "None", {}, fire)

ProcessMisaligned(st0, th) ==
    LET st1 == [st0 EXCEPT
                   !.INACTIVE_TIME_FRONT       = @ + (0 - st0.start_inactive_time_front),
                   !.start_inactive_time_front = 0]
        fire == st1.INACTIVE_TIME_FRONT >= th.INACTIVE_THRESH
        st2 == IF fire THEN _hard_reset_all(st1) ELSE st1
        st3 == [st2 EXCEPT !.INACTIVE_TIME = 0, !.start_inactive_time = 0]
    IN  Result(st3, IF fire THEN "reset_counters" ELSE "None", {}, fire)

-----------------------------------------------------------------------------
(* process(), the aligned path *)

\* camera aligned: reset the "front" timer
ResetFront(st) ==
    [st EXCEPT !.INACTIVE_TIME_FRONT = 0, !.start_inactive_time_front = 0]

\* state from hip flexion
Classify(st, current_state) ==
    [st EXCEPT !.curr_state = current_state,
               !.state_seq  = _update_state_sequence(st.state_seq, current_state)]

\* per-rep min/max hip angle once s2 has started
\* TrackRange with min and max exchanged
TrackRangeSwapped(st, ang) ==
    IF In("s2", st.state_seq) THEN
        IF st.rep_min_angle = None
        THEN [st EXCEPT !.rep_min_angle = Some(ang), !.rep_max_angle = Some(ang)]
        ELSE [st EXCEPT !.rep_min_angle = Some(Max2(st.rep_min_angle[1], ang)),
                        !.rep_max_angle = Some(Min2(st.rep_max_angle[1], ang))]
    ELSE st

\* TrackRange that leaves out the frame that is back at rest in s1
TrackRangeBeforeRest(st, ang) ==
    IF In("s2", st.state_seq) /\ st.curr_state # "s1" THEN
        IF st.rep_min_angle = None
        THEN [st EXCEPT !.rep_min_angle = Some(ang), !.rep_max_angle = Some(ang)]
        ELSE [st EXCEPT !.rep_min_angle = Some(Min2(st.rep_min_angle[1], ang)),
                        !.rep_max_angle = Some(Max2(st.rep_max_angle[1], ang))]
    ELSE st

TrackRange(st, ang) ==
    IF In("s2", st.state_seq) THEN
        IF st.rep_min_angle = None
        THEN [st EXCEPT !.rep_min_angle = Some(ang), !.rep_max_angle = Some(ang)]
        ELSE [st EXCEPT !.rep_min_angle = Some(Min2(st.rep_min_angle[1], ang)),
                        !.rep_max_angle = Some(Max2(st.rep_max_angle[1], ang))]
    ELSE st

\* hold timing at s3
\* HoldTiming that forgets the hold on leaving s3
HoldTimingForgets(st, current_state) ==
    IF current_state = "s3" THEN
        IF st.s3_enter_time = None
        THEN [st EXCEPT !.s3_enter_time = Some(0)]
        ELSE IF (0 - st.s3_enter_time[1]) >= TARGET_HOLD
             THEN [st EXCEPT !.s3_hold_ok = TRUE]
             ELSE st
    ELSE [st EXCEPT !.s3_enter_time = None, !.s3_hold_ok = FALSE]

HoldTiming(st, current_state) ==
    IF current_state = "s3" THEN
        IF st.s3_enter_time = None
        THEN [st EXCEPT !.s3_enter_time = Some(0)]
        ELSE IF (0 - st.s3_enter_time[1]) >= TARGET_HOLD
             THEN [st EXCEPT !.s3_hold_ok = TRUE]
             ELSE st
    ELSE [st EXCEPT !.s3_enter_time = None]

\* SuppressFormCues that also forgives the violation while in s3
SuppressFormCuesForgives(st, current_state) ==
    IF current_state = "s3"
    THEN [st EXCEPT !.DISPLAY_TEXT = [@ EXCEPT ![0] = FALSE, ![1] = FALSE],
                    !.COUNT_FRAMES = [@ EXCEPT ![0] = 0, ![1] = 0],
                    !.INCORRECT_POSTURE = FALSE]
    ELSE st

\* form cues are suppressed while in s3
SuppressFormCues(st, current_state) ==
    IF current_state = "s3"
    THEN [st EXCEPT !.DISPLAY_TEXT = [@ EXCEPT ![0] = FALSE, ![1] = FALSE],
                    !.COUNT_FRAMES = [@ EXCEPT ![0] = 0, ![1] = 0]]
    ELSE st

range_ok(st, th) ==
    /\ st.rep_min_angle # None
    /\ st.rep_max_angle # None
    /\ (st.rep_max_angle[1] - st.rep_min_angle[1]) >= th.REP_MIN_RANGE

have_full_seq(seq) == Len(seq) = 3 /\ seq = <<"s2", "s3", "s2">>

\* Resolve without the hold requirement
\* Resolve that leaves the attempt open
ResolveKeepsAttempt(st0, th) ==
    LET st1 == IF st0.prev_state = "s3"
               THEN [st0 EXCEPT !.DISPLAY_TEXT = [@ EXCEPT ![3] = TRUE],
                                !.INCORRECT_POSTURE = TRUE]
               ELSE st0
        seq == st1.state_seq
        correct == /\ have_full_seq(seq)
                   /\ ~st1.INCORRECT_POSTURE
                   /\ st1.s3_hold_ok
                   /\ range_ok(st1, th)
        st2 == IF correct
               THEN [st1 EXCEPT !.CORRECT_COUNT = @ + 1]
               ELSE [st1 EXCEPT
                        !.DISPLAY_TEXT = IF In("s2", seq) /\ ~In("s3", seq)
                                         THEN [@ EXCEPT ![2] = TRUE] ELSE @,
                        !.INCORRECT_COUNT = @ + 1]
        sound == IF correct THEN ToString(st2.CORRECT_COUNT) ELSE "incorrect"
    IN  [st |-> st2, play_sound |-> sound]

\* Resolve that forgives the INCORRECT reps when it counts a CORRECT one
ResolveForgives(st0, th) ==
    LET st1 == IF st0.prev_state = "s3"
               THEN [st0 EXCEPT !.DISPLAY_TEXT = [@ EXCEPT ![3] = TRUE],
                                !.INCORRECT_POSTURE = TRUE]
               ELSE st0
        seq == st1.state_seq
        correct == /\ have_full_seq(seq)
                   /\ ~st1.INCORRECT_POSTURE
                   /\ st1.s3_hold_ok
                   /\ range_ok(st1, th)
        st2 == IF correct
               THEN [st1 EXCEPT !.CORRECT_COUNT = @ + 1, !.INCORRECT_COUNT = 0]
               ELSE [st1 EXCEPT
                        !.DISPLAY_TEXT = IF In("s2", seq) /\ ~In("s3", seq)
                                         THEN [@ EXCEPT ![2] = TRUE] ELSE @,
                        !.INCORRECT_COUNT = @ + 1]
        sound == IF correct THEN ToString(st2.CORRECT_COUNT) ELSE "incorrect"
    IN  [st |-> _reset_live_flags([st2 EXCEPT !.state_seq = <<>>]), play_sound |-> sound]

ResolveNoHold(st0, th) ==
    LET st1 == IF st0.prev_state = "s3"
               THEN [st0 EXCEPT !.DISPLAY_TEXT = [@ EXCEPT ![3] = TRUE],
                                !.INCORRECT_POSTURE = TRUE]
               ELSE st0
        seq == st1.state_seq
        correct == /\ have_full_seq(seq)
                   /\ ~st1.INCORRECT_POSTURE
                   /\ range_ok(st1, th)
        st2 == IF correct
               THEN [st1 EXCEPT !.CORRECT_COUNT = @ + 1]
               ELSE [st1 EXCEPT
                        !.DISPLAY_TEXT = IF In("s2", seq) /\ ~In("s3", seq)
                                         THEN [@ EXCEPT ![2] = TRUE] ELSE @,
                        !.INCORRECT_COUNT = @ + 1]
        sound == IF correct THEN ToString(st2.CORRECT_COUNT) ELSE "incorrect"
    IN  [st |-> _reset_live_flags([st2 EXCEPT !.state_seq = <<>>]), play_sound |-> sound]

\* Resolve without the drop check: s3 straight to s1 is not held against the rep
ResolveNoLowering(st0, th) ==
    LET seq == st0.state_seq
        correct == /\ have_full_seq(seq)
                   /\ ~st0.INCORRECT_POSTURE
                   /\ st0.s3_hold_ok
                   /\ range_ok(st0, th)
        st2 == IF correct
               THEN [st0 EXCEPT !.CORRECT_COUNT = @ + 1]
               ELSE [st0 EXCEPT
                        !.DISPLAY_TEXT = IF In("s2", seq) /\ ~In("s3", seq)
                                         THEN [@ EXCEPT ![2] = TRUE] ELSE @,
                        !.INCORRECT_COUNT = @ + 1]
        sound == IF correct THEN ToString(st2.CORRECT_COUNT) ELSE "incorrect"
    IN  [st |-> _reset_live_flags([st2 EXCEPT !.state_seq = <<>>]), play_sound |-> sound]

\* Resolve that counts only when an attempt is open
ResolveOpenAttemptsOnly(st0, th) ==
    LET st1 == IF st0.prev_state = "s3"
               THEN [st0 EXCEPT !.DISPLAY_TEXT = [@ EXCEPT ![3] = TRUE],
                                !.INCORRECT_POSTURE = TRUE]
               ELSE st0
        seq == st1.state_seq
        correct == /\ have_full_seq(seq)
                   /\ ~st1.INCORRECT_POSTURE
                   /\ st1.s3_hold_ok
                   /\ range_ok(st1, th)
        st2 == IF correct
               THEN [st1 EXCEPT !.CORRECT_COUNT = @ + 1]
               ELSE IF seq = <<>> THEN st1
               ELSE [st1 EXCEPT
                        !.DISPLAY_TEXT = IF In("s2", seq) /\ ~In("s3", seq)
                                         THEN [@ EXCEPT ![2] = TRUE] ELSE @,
                        !.INCORRECT_COUNT = @ + 1]
        sound == IF correct THEN ToString(st2.CORRECT_COUNT)
                 ELSE IF seq = <<>> THEN "None" ELSE "incorrect"
    IN  [st |-> _reset_live_flags([st2 EXCEPT !.state_seq = <<>>]), play_sound |-> sound]

\* Resolve that leaves the banner flags it raised for the frames to come
ResolveKeepsBanners(st0, th) ==
    LET st1 == IF st0.prev_state = "s3"
               THEN [st0 EXCEPT !.DISPLAY_TEXT = [@ EXCEPT ![3] = TRUE],
                                !.INCORRECT_POSTURE = TRUE]
               ELSE st0
        seq == st1.state_seq
        correct == /\ have_full_seq(seq)
                   /\ ~st1.INCORRECT_POSTURE
                   /\ st1.s3_hold_ok
                   /\ range_ok(st1, th)
        st2 == IF correct
               THEN [st1 EXCEPT !.CORRECT_COUNT = @ + 1]
               ELSE [st1 EXCEPT
                        !.DISPLAY_TEXT = IF In("s2", seq) /\ ~In("s3", seq)
                                         THEN [@ EXCEPT ![2] = TRUE] ELSE @,
                        !.INCORRECT_COUNT = @ + 1]
        sound == IF correct THEN ToString(st2.CORRECT_COUNT) ELSE "incorrect"
    IN  [st |-> [_reset_live_flags([st2 EXCEPT !.state_seq = <<>>])
                    EXCEPT !.DISPLAY_TEXT = st2.DISPLAY_TEXT,
                           !.COUNT_FRAMES = st2.COUNT_FRAMES],
         play_sound |-> sound]

\* back in s1: the outcome of the rep attempt
Resolve(st0, th) ==
    LET st1 == IF st0.prev_state = "s3"
               THEN [st0 EXCEPT !.DISPLAY_TEXT = [@ EXCEPT ![3] = TRUE],
                                !.INCORRECT_POSTURE = TRUE]
               ELSE st0
        seq == st1.state_seq
        correct == /\ have_full_seq(seq)
                   /\ ~st1.INCORRECT_POSTURE
                   /\ st1.s3_hold_ok
                   /\ range_ok(st1, th)
        st2 == IF correct
               THEN [st1 EXCEPT !.CORRECT_COUNT = @ + 1]
               ELSE [st1 EXCEPT
                        !.DISPLAY_TEXT = IF In("s2", seq) /\ ~In("s3", seq)
                                         THEN [@ EXCEPT ![2] = TRUE] ELSE @,
                        !.INCORRECT_COUNT = @ + 1]
        sound == IF correct THEN ToString(st2.CORRECT_COUNT) ELSE "incorrect"
    IN  [st |-> _reset_live_flags([st2 EXCEPT !.state_seq = <<>>]), play_sound |-> sound]

\* LiveFeedback without the RAISE HIGHER nudge
LiveFeedbackNoNudge(st0, th, current_state, hip_vertical, knee_flexion, torso_tilt) ==
    LET st1 == IF current_state # "s3" /\ knee_flexion > th.KNEE_LOCK_MAX
               THEN [st0 EXCEPT !.DISPLAY_TEXT = [@ EXCEPT ![0] = TRUE],
                                !.INCORRECT_POSTURE = TRUE]
               ELSE st0
        st2 == IF current_state # "s3" /\ torso_tilt > th.TORSO_TILT_MAX
               THEN [st1 EXCEPT !.DISPLAY_TEXT = [@ EXCEPT ![1] = TRUE],
                                !.INCORRECT_POSTURE = TRUE]
               ELSE st1
    IN  [st |-> st2, play_sound |-> "None"]

\* LiveFeedback that raises the knee and torso cues in s3 as well
LiveFeedbackInS3(st0, th, current_state, hip_vertical, knee_flexion, torso_tilt) ==
    LET st1 == IF knee_flexion > th.KNEE_LOCK_MAX
               THEN [st0 EXCEPT !.DISPLAY_TEXT = [@ EXCEPT ![0] = TRUE],
                                !.INCORRECT_POSTURE = TRUE]
               ELSE st0
        st2 == IF torso_tilt > th.TORSO_TILT_MAX
               THEN [st1 EXCEPT !.DISPLAY_TEXT = [@ EXCEPT ![1] = TRUE],
                                !.INCORRECT_POSTURE = TRUE]
               ELSE st1
        pass_lo == th.HIP_KNEE_VERT.PASS[1]
        st3 == IF current_state = "s2" /\ hip_vertical < pass_lo
               THEN [st2 EXCEPT !.DISPLAY_TEXT = [@ EXCEPT ![2] = TRUE]]
               ELSE st2
    IN  [st |-> st3, play_sound |-> "None"]

\* live feedback while moving / at top
LiveFeedback(st0, th, current_state, hip_vertical, knee_flexion, torso_tilt) ==
    LET st1 == IF current_state # "s3" /\ knee_flexion > th.KNEE_LOCK_MAX
               THEN [st0 EXCEPT !.DISPLAY_TEXT = [@ EXCEPT ![0] = TRUE],
                                !.INCORRECT_POSTURE = TRUE]
               ELSE st0
        st2 == IF current_state # "s3" /\ torso_tilt > th.TORSO_TILT_MAX
               THEN [st1 EXCEPT !.DISPLAY_TEXT = [@ EXCEPT ![1] = TRUE],
                                !.INCORRECT_POSTURE = TRUE]
               ELSE st1
        pass_lo == th.HIP_KNEE_VERT.PASS[1]
        st3 == IF current_state = "s2" /\ hip_vertical < pass_lo
               THEN [st2 EXCEPT !.DISPLAY_TEXT = [@ EXCEPT ![2] = TRUE]]
               ELSE st2
    IN  [st |-> st3, play_sound |-> "None"]

\* SideInactivity that lets the event of a resolved rep stand when it resets
SideInactivityKeepsEvent(r, th) ==
    IF r.st.curr_state = r.st.prev_state THEN
        LET st1 == [r.st EXCEPT
                       !.INACTIVE_TIME       = @ + (0 - r.st.start_inactive_time),
                       !.start_inactive_time = 0]
        IN  IF st1.INACTIVE_TIME >= th.INACTIVE_THRESH
            THEN [st |-> _hard_reset_all(st1),
                  play_sound |-> IF r.play_sound = "None" THEN "reset_counters"
                                 ELSE r.play_sound,
                  hard_reset |-> TRUE]
            ELSE [st |-> st1, play_sound |-> r.play_sound, hard_reset |-> FALSE]
    ELSE [st |-> [r.st EXCEPT !.start_inactive_time = 0, !.INACTIVE_TIME = 0],
          play_sound |-> r.play_sound, hard_reset |-> FALSE]

\* inactivity (side view); r is the tracker with the event so far
\* SideInactivity that takes every frame at rest in s1 as idle
SideInactivityAtRest(r, th) ==
    IF r.st.curr_state = "s1" \/ r.st.curr_state = r.st.prev_state THEN
        LET st1 == [r.st EXCEPT
                       !.INACTIVE_TIME       = @ + (0 - r.st.start_inactive_time),
                       !.start_inactive_time = 0]
        IN  IF st1.INACTIVE_TIME >= th.INACTIVE_THRESH
            THEN [st |-> _hard_reset_all(st1), play_sound |-> "reset_counters",
                  hard_reset |-> TRUE]
            ELSE [st |-> st1, play_sound |-> r.play_sound, hard_reset |-> FALSE]
    ELSE [st |-> [r.st EXCEPT !.start_inactive_time = 0, !.INACTIVE_TIME = 0],
          play_sound |-> r.play_sound, hard_reset |-> FALSE]

SideInactivity(r, th) ==
    IF r.st.curr_state = r.st.prev_state THEN
        LET st1 == [r.st EXCEPT
                       !.INACTIVE_TIME       = @ + (0 - r.st.start_inactive_time),
                       !.start_inactive_time = 0]
        IN  IF st1.INACTIVE_TIME >= th.INACTIVE_THRESH
            THEN [st |-> _hard_reset_all(st1), play_sound |-> "reset_counters",
                  hard_reset |-> TRUE]
            ELSE [st |-> st1, play_sound |-> r.play_sound, hard_reset |-> FALSE]
    ELSE [st |-> [r.st EXCEPT !.start_inactive_time = 0, !.INACTIVE_TIME = 0],
          play_sound |-> r.play_sound, hard_reset |-> FALSE]

\* COUNT_FRAMES[DISPLAY_TEXT] += 1
CountBanners(st) ==
    [st EXCEPT !.COUNT_FRAMES =
        [i \in Feedback |-> IF st.DISPLAY_TEXT[i] THEN @[i] + 1 ELSE @[i]]]

\* _show_feedback draws the banners whose COUNT_FRAMES is not zero
_show_feedback(c_frame) == {idx \in Feedback : c_frame[idx] # 0}

\* BannerTTL that clears the flag and keeps the count
BannerTTLKeepsCount(st, th) ==
    LET ttl == th.CNT_FRAME_THRESH
        mask == [i \in Feedback |-> st.COUNT_FRAMES[i] > ttl]
    IN  [st EXCEPT
            !.DISPLAY_TEXT = [i \in Feedback |-> IF mask[i] THEN FALSE ELSE @[i]]]

\* BannerTTL that clears nothing
BannerTTLNever(st, th) == st

\* TTL for banners
BannerTTL(st, th) ==
    LET ttl == th.CNT_FRAME_THRESH
        mask == [i \in Feedback |-> st.COUNT_FRAMES[i] > ttl]
    IN  [st EXCEPT
            !.DISPLAY_TEXT = [i \in Feedback |-> IF mask[i] THEN FALSE ELSE @[i]],
            !.COUNT_FRAMES = [i \in Feedback |-> IF mask[i] THEN 0 ELSE @[i]]]

\* commit prev_state
CommitPrev(st, current_state) == [st EXCEPT !.prev_state = current_state]

ProcessAligned(st0, th, hip_vertical, knee_flexion, torso_tilt) ==
    LET current_state == _get_state(th, hip_vertical)
        st1 == Classify(ResetFront(st0), current_state)
        st2 == TrackRange(st1, hip_vertical)
        st3 == HoldTiming(st2, current_state)
        st4 == SuppressFormCues(st3, current_state)
        r5  == IF current_state = "s1"
               THEN Resolve(st4, th)
               ELSE LiveFeedback(st4, th, current_state, hip_vertical,
                                 knee_flexion, torso_tilt)
        r6  == SideInactivity(r5, th)
        st7 == CountBanners(r6.st)
        st8 == BannerTTL(st7, th)
    IN  Result(CommitPrev(st8, current_state), r6.play_sound,
               _show_feedback(st7.COUNT_FRAMES), r6.hard_reset)

-----------------------------------------------------------------------------
(* process() *)

\* the inputs of one call: what the pose estimator and the geometry give, and
\* the time since the previous call
Input(landmarks, offset, hip, knee, torso, dt) ==
    [pose_landmarks |-> landmarks, offset_angle |-> offset, hip_vertical |-> hip,
     knee_flexion |-> knee, torso_tilt |-> torso, dt |-> dt]

Kind(in, th) ==
    IF ~in.pose_landmarks THEN "no_landmarks"
    ELSE IF in.offset_angle > th.OFFSET_THRESH THEN "misaligned"
    ELSE "aligned"

process(st, th, in) ==
    LET now == Advance(st, in.dt) IN
    IF ~in.pose_landmarks
        THEN ProcessNoLandmarks(now, th)
    ELSE IF in.offset_angle > th.OFFSET_THRESH
        THEN ProcessMisaligned(now, th)
    ELSE ProcessAligned(now, th, in.hip_vertical, in.knee_flexion, in.torso_tilt)

-----------------------------------------------------------------------------
(* The inputs the model draws from *)

\* tenths of a second between two calls
DtSet == {12, 50}
\* hip flexion angles: at rest, raising, at the top, beyond the PASS band
HipSet == {5, 30, 80, 100}
\* (knee_flexion, torso_tilt): good form, bent knee, arched back
FormSet == {<<10, 10>>, <<30, 10>>, <<10, 30>>}

NoLandmarkInputs(dts) == {Input(FALSE, 0, 0, 0, 0, dt) : dt \in dts}
MisalignedInputs(dts) == {Input(TRUE, 50, 0, 0, 0, dt) : dt \in dts}
AlignedInputs(hips, forms, dts) ==
    {Input(TRUE, 20, h, f[1], f[2], dt) : h \in hips, f \in forms, dt \in dts}

-----------------------------------------------------------------------------
(* The state machine *)

\* what a call was given, as the claims need it
Given(in, th) ==
    [kind          |-> Kind(in, th),
     current_state |-> IF Kind(in, th) = "aligned"
                       THEN _get_state(th, in.hip_vertical) ELSE "None",
     hip_vertical  |-> IF Kind(in, th) = "aligned" THEN in.hip_vertical ELSE 0]

\* the observers before the first call
InitMon ==
    [ \* SpecRep
      path      |-> "fresh",   \* how far the session has run s1, s2, s3, s2, s1
      top_dwell |-> 0,         \* the dwell in s3 of that run
      viol      |-> FALSE,     \* a knee or torso angle beyond its limit in that run,
                               \* on a frame that tests them (not s1, not s3)
      s3_run    |-> None,      \* time since the first of the consecutive s3 frames
      hold_run  |-> None,      \* time since the first s3 frame after a frame of another state
      early     |-> "no",      \* an s3 frame came before any s2 in this attempt
      seen      |-> {},        \* the states classified since the last s1 frame
      raised2   |-> FALSE,     \* RAISE HIGHER was drawn since the last s1 frame
      at_s1     |-> [early |-> "no", seen |-> {}],   \* early, seen at the last s1 frame
      \* SpecPass
      pass       |-> "none",   \* the frames seen since CORRECT_COUNT last grew
      \* SpecIdle
      dt         |-> 0,        \* the time the last call came after the one before
      side_span  |-> None,     \* clock advance over the run of side-view idle frames
      front_span |-> None,     \* clock advance over the run of misaligned frames
      \* SpecBanner
      stale      |-> [i \in Feedback |-> 0],   \* calls a banner flag outlived its trigger
      stale_al   |-> [i \in Feedback |-> 0],   \* the aligned calls among them
      \* SpecForm
      knee_over  |-> FALSE,    \* the last call was given a knee angle beyond KNEE_LOCK_MAX
      torso_over |-> FALSE,    \* the last call was given a torso angle beyond TORSO_TILT_MAX
      entered    |-> [prev_state |-> "None", state_seq |-> <<>>,
                      s3_hold_ok |-> FALSE, INCORRECT_POSTURE |-> FALSE],
                               \* the attempt as the last s1 frame found it
      \* SpecEdge
      rest       |-> [k |-> 0, base |-> 0],    \* the run of resting s1 frames, and
                                               \* INCORRECT_COUNT before it
      tested     |-> None,     \* rep_min_angle, rep_max_angle as the last s1 frame
                               \* that found the full sequence tested them
      held       |-> None,     \* and as that frame found them
      \* SpecClear
      cleared    |-> {} ]      \* what has cleared a banner flag whose counter ran

Init ==
    /\ thresholds \in Profiles
    /\ state_tracker = InitTracker
    /\ play_sound = "None"
    /\ banners = {}
    /\ hard_reset = FALSE
    /\ frame = [kind |-> "none", current_state |-> "None", hip_vertical |-> 0]
    /\ nframes = 0
    /\ mon = InitMon

\* one call of process()
Call(in) ==
    LET r == process(state_tracker, thresholds, in) IN
    /\ state_tracker' = r.st
    /\ play_sound' = r.play_sound
    /\ banners' = r.banners
    /\ hard_reset' = r.hard_reset
    /\ frame' = Given(in, thresholds)
    /\ UNCHANGED thresholds

\* a session of at most MaxFrames calls
Counted ==
    /\ nframes < MaxFrames
    /\ nframes' = nframes + 1

NoLandmarksFrame ==
    /\ Counted
    /\ \E in \in NoLandmarkInputs(DtSet) : Call(in)
    /\ UNCHANGED mon

MisalignedFrame ==
    /\ Counted
    /\ \E in \in MisalignedInputs(DtSet) : Call(in)
    /\ UNCHANGED mon

AlignedFrame ==
    /\ Counted
    /\ \E in \in AlignedInputs(HipSet, FormSet, DtSet) : Call(in)
    /\ UNCHANGED mon

Next == NoLandmarksFrame \/ MisalignedFrame \/ AlignedFrame

Spec == Init /\ [][Next]_vars

-----------------------------------------------------------------------------
(* SpecRep: the same calls, observed as rep attempts *)

\* (knee_flexion, torso_tilt): good form, bent knee
FormRep == {<<10, 10>>, <<30, 10>>}

\* the session runs s1.., s2.., s3.., s2.., s1 from its first call, every
\* frame aligned and classified, no hard reset
PathStep(p, cs) ==
    IF      p \in {"fresh", "rest"} /\ cs = "s1" THEN "rest"
    ELSE IF p \in {"rest", "up"}    /\ cs = "s2" THEN "up"
    ELSE IF p \in {"up", "top"}     /\ cs = "s3" THEN "top"
    ELSE IF p \in {"top", "down"}   /\ cs = "s2" THEN "down"
    ELSE IF p = "down"              /\ cs = "s1" THEN "done"
    ELSE "off"

\* an s3 frame before any s2, then an s2 frame, then an s3 frame again
EarlyStep(e, cs, state_seq) ==
    IF      cs = "s1" THEN "no"
    ELSE IF cs = "s3" /\ ~In("s2", state_seq) THEN "pending"
    ELSE IF cs = "s2" /\ e = "pending" THEN "s2seen"
    ELSE IF cs = "s3" /\ e = "s2seen" THEN "legal"
    ELSE e

\* st, in: the session before the call and its inputs; r: its result
RepMon(m, st, th, in, r) ==
    LET g      == Given(in, th)
        al     == g.kind = "aligned"
        cs     == g.current_state
        \* the two angles are tested in the else branch of the s1 test, outside s3
        excess == /\ al /\ cs \notin {"s1", "s3"}
                  /\ (in.knee_flexion > th.KNEE_LOCK_MAX \/ in.torso_tilt > th.TORSO_TILT_MAX)
        path   == IF al /\ ~r.hard_reset THEN PathStep(m.path, cs) ELSE "off"
        run    == IF al /\ cs = "s3"
                  THEN IF m.s3_run = None THEN Some(0)
                       ELSE Some(Min2(m.s3_run[1] + in.dt, TARGET_HOLD))
                  ELSE None
    IN  [m EXCEPT
            !.path      = path,
            !.top_dwell = IF path = "top" THEN run[1]
                          ELSE IF path \in {"down", "done"} THEN @ ELSE 0,
            !.viol      = IF path \in {"fresh", "off"} THEN FALSE ELSE @ \/ excess,
            !.s3_run    = run,
            !.hold_run  = IF r.hard_reset \/ (al /\ cs # "s3") THEN None
                          ELSE IF @ # None THEN Some(Min2(@[1] + in.dt, TARGET_HOLD))
                          ELSE IF al THEN Some(0) ELSE None,
            !.early     = IF r.hard_reset THEN "no"
                          ELSE IF al THEN EarlyStep(@, cs, st.state_seq) ELSE @,
            !.seen      = IF al /\ cs = "s1" THEN {}
                          ELSE IF al THEN @ \cup {cs} ELSE @,
            !.raised2   = IF al /\ cs = "s1" THEN FALSE ELSE @ \/ (2 \in r.banners),
            !.at_s1     = IF al /\ cs = "s1"
                          THEN [early |-> m.early, seen |-> m.seen] ELSE @]

RepCall(in) ==
    /\ Call(in)
    /\ mon' = RepMon(mon, state_tracker, thresholds, in,
                     process(state_tracker, thresholds, in))

RepNoLandmarksFrame ==
    /\ Counted
    /\ \E in \in NoLandmarkInputs(DtSet) : RepCall(in)

RepMisalignedFrame ==
    /\ Counted
    /\ \E in \in MisalignedInputs(DtSet) : RepCall(in)

RepAlignedFrame ==
    /\ Counted
    /\ \E in \in AlignedInputs(HipSet, FormRep, DtSet) : RepCall(in)

NextRep == RepNoLandmarksFrame \/ RepMisalignedFrame \/ RepAlignedFrame

SpecRep == Init /\ [][NextRep]_vars

-----------------------------------------------------------------------------
(* What the claims speak of.  In an action formula the unprimed variables   *)
(* are the session before a call of process() and the primed ones the       *)
(* session after it; frame' tells what the call was given.                  *)

CORRECT_COUNT == state_tracker.CORRECT_COUNT
INCORRECT_COUNT == state_tracker.INCORRECT_COUNT

\* the call processed an aligned frame classified as state s
AlignedAs(s) == frame'.kind = "aligned" /\ frame'.current_state = s

\* the session is as a hard reset leaves it, the anchors at the current clock
Zeroed(st) ==
    /\ st.CORRECT_COUNT = 0 /\ st.INCORRECT_COUNT = 0
    /\ st.state_seq = <<>>
    /\ st.prev_state = "None" /\ st.curr_state = "None"
    /\ st.rep_min_angle = None /\ st.rep_max_angle = None /\ st.s3_enter_time = None
    /\ ~st.s3_hold_ok /\ ~st.INCORRECT_POSTURE
    /\ \A i \in Feedback : ~st.DISPLAY_TEXT[i] /\ st.COUNT_FRAMES[i] = 0
    /\ st.INACTIVE_TIME = 0 /\ st.INACTIVE_TIME_FRONT = 0
    /\ st.start_inactive_time = 0 /\ st.start_inactive_time_front = 0

-----------------------------------------------------------------------------
(* SpecPass: sessions long enough for two reps, observed between the counts *)

MaxPassFrames == 10
\* 1.2 s and 5 s between two calls
DtPass == {12, 50}
HipPass == {5, 30, 80, 100}
FormPass == {<<10, 10>>}

\* since the call that last incremented CORRECT_COUNT, with no hard reset after
\* it: frames classified s2, then s3, then s2 have been seen
PassStep(p, cs, counted, reset) ==
    IF reset THEN "none"
    ELSE IF counted THEN "counted"
    ELSE IF p = "counted" /\ cs = "s2" THEN "s2"
    ELSE IF p = "s2" /\ cs = "s3" THEN "s3"
    ELSE IF p = "s3" /\ cs = "s2" THEN "back"
    ELSE p

PassMon(m, st, th, in, r) ==
    [m EXCEPT !.pass = PassStep(@, Given(in, th).current_state,
                                r.st.CORRECT_COUNT = st.CORRECT_COUNT + 1,
                                r.hard_reset)]

PassCall(in) ==
    /\ nframes < MaxPassFrames
    /\ nframes' = nframes + 1
    /\ Call(in)
    /\ mon' = PassMon(mon, state_tracker, thresholds, in,
                      process(state_tracker, thresholds, in))

PassNoLandmarksFrame == \E in \in NoLandmarkInputs(DtPass) : PassCall(in)

PassMisalignedFrame == \E in \in MisalignedInputs(DtPass) : PassCall(in)

PassAlignedFrame == \E in \in AlignedInputs(HipPass, FormPass, DtPass) : PassCall(in)

NextPass == PassNoLandmarksFrame \/ PassMisalignedFrame \/ PassAlignedFrame

SpecPass == Init /\ [][NextPass]_vars

-----------------------------------------------------------------------------
(* SpecIdle: calls around the inactivity threshold, observed as idle runs *)

\* 4.9 s, 5 s, 10 s, 15 s between two calls: 14.9 s and 15 s are sums of two
DtIdle == {49, 50, 100, 150}
HipIdle == {5, 30, 100}
FormIdle == {<<10, 10>>}

\* the clock advance over the run of consecutive calls in which cond holds,
\* from the first call of the run, or from the call after a hard reset in it
SpanStep(span, cond, was_reset, dt, th) ==
    IF ~cond THEN None
    ELSE IF span = None \/ was_reset THEN Some(0)
    ELSE Some(Min2(span[1] + dt, th.INACTIVE_THRESH))

IdleMon(m, st, th, in, was_reset) ==
    LET g     == Given(in, th)
        side  == \/ g.kind = "no_landmarks"
                 \/ g.kind = "aligned" /\ g.current_state = st.prev_state
        front == g.kind = "misaligned"
    IN  [m EXCEPT
            !.dt         = in.dt,
            !.side_span  = SpanStep(@, side, was_reset, in.dt, th),
            !.front_span = SpanStep(@, front, was_reset, in.dt, th)]

IdleCall(in) ==
    /\ Call(in)
    /\ mon' = IdleMon(mon, state_tracker, thresholds, in, hard_reset)

IdleNoLandmarksFrame ==
    /\ Counted
    /\ \E in \in NoLandmarkInputs(DtIdle) : IdleCall(in)

IdleMisalignedFrame ==
    /\ Counted
    /\ \E in \in MisalignedInputs(DtIdle) : IdleCall(in)

IdleAlignedFrame ==
    /\ Counted
    /\ \E in \in AlignedInputs(HipIdle, FormIdle, DtIdle) : IdleCall(in)

NextIdle == IdleNoLandmarksFrame \/ IdleMisalignedFrame \/ IdleAlignedFrame

SpecIdle == Init /\ [][NextIdle]_vars

-----------------------------------------------------------------------------
(* SpecBanner: long runs of calls at one instant, observed as banner lives *)

DtBanner == {0}
\* raising with a bent knee and an arched back; beyond the PASS band in good form
HipBanner == {30, 100}
FormBanner == {<<30, 30>>, <<10, 10>>}
BannerInputs ==
    {in \in AlignedInputs(HipBanner, FormBanner, DtBanner) :
        in.hip_vertical = 30 <=> in.knee_flexion = 30}

\* the condition that sets DISPLAY_TEXT[i] holds in the call
Trigger(i, st, th, in) ==
    LET g  == Given(in, th)
        cs == g.current_state
    IN  /\ g.kind = "aligned"
        /\ CASE i = 0 -> cs \notin {"s1", "s3"} /\ in.knee_flexion > th.KNEE_LOCK_MAX
              [] i = 1 -> cs \notin {"s1", "s3"} /\ in.torso_tilt > th.TORSO_TILT_MAX
              [] i = 2 -> \/ cs = "s2" /\ in.hip_vertical < th.HIP_KNEE_VERT.PASS[1]
                          \/ cs = "s1" /\ In("s2", st.state_seq) /\ ~In("s3", st.state_seq)
              [] i = 3 -> cs = "s1" /\ st.prev_state = "s3"

\* the consecutive calls since the trigger stopped at whose end the flag is set
BannerMon(m, st, th, in, r) ==
    LET al  == Given(in, th).kind = "aligned"
        cap == th.CNT_FRAME_THRESH + 1
    IN  [m EXCEPT
            !.stale    = [i \in Feedback |->
                            IF Trigger(i, st, th, in) \/ ~r.st.DISPLAY_TEXT[i] THEN 0
                            ELSE Min2(@[i] + 1, cap)],
            !.stale_al = [i \in Feedback |->
                            IF Trigger(i, st, th, in) \/ ~r.st.DISPLAY_TEXT[i] THEN 0
                            ELSE IF al THEN Min2(@[i] + 1, cap) ELSE @[i]]]

BannerCall(in) ==
    /\ Call(in)
    /\ mon' = BannerMon(mon, state_tracker, thresholds, in,
                        process(state_tracker, thresholds, in))
    /\ UNCHANGED nframes

BannerNoLandmarksFrame == \E in \in NoLandmarkInputs(DtBanner) : BannerCall(in)

BannerMisalignedFrame == \E in \in MisalignedInputs(DtBanner) : BannerCall(in)

BannerAlignedFrame == \E in \in BannerInputs : BannerCall(in)

NextBanner == BannerNoLandmarksFrame \/ BannerMisalignedFrame \/ BannerAlignedFrame

SpecBanner == Init /\ [][NextBanner]_vars

-----------------------------------------------------------------------------
(* SpecForm: every combination of knee and torso angle, observed at the call
   and at the resolving s1 frame *)

DtForm == {50}
FormAll == {<<10, 10>>, <<30, 10>>, <<10, 30>>, <<30, 30>>}

FormMon(m, st, th, in) ==
    LET g == Given(in, th)
    IN  [m EXCEPT
            !.knee_over  = g.kind = "aligned" /\ in.knee_flexion > th.KNEE_LOCK_MAX,
            !.torso_over = g.kind = "aligned" /\ in.torso_tilt > th.TORSO_TILT_MAX,
            !.entered    = IF g.kind = "aligned" /\ g.current_state = "s1"
                           THEN [prev_state        |-> st.prev_state,
                                 state_seq         |-> st.state_seq,
                                 s3_hold_ok        |-> st.s3_hold_ok,
                                 INCORRECT_POSTURE |-> st.INCORRECT_POSTURE]
                           ELSE @]

FormCall(in) ==
    /\ Counted
    /\ Call(in)
    /\ mon' = FormMon(mon, state_tracker, thresholds, in)

FormNoLandmarksFrame == \E in \in NoLandmarkInputs(DtForm) : FormCall(in)

FormMisalignedFrame == \E in \in MisalignedInputs(DtForm) : FormCall(in)

FormAlignedFrame == \E in \in AlignedInputs(HipSet, FormAll, DtForm) : FormCall(in)

NextForm == FormNoLandmarksFrame \/ FormMisalignedFrame \/ FormAlignedFrame

SpecForm == Init /\ [][NextForm]_vars

-----------------------------------------------------------------------------
(* SpecEdge: hip angles on the edges of the bands of both profiles, observed
   over the runs of resting s1 frames *)

DtEdge == {12, 50}
\* NORMAL ends at 15 (beginner) and 20 (pro), PASS starts at 61 and 76
HipEdge == {15, 20, 61, 76, 100}
FormEdge == {<<10, 10>>}

\* the run of consecutive calls that are aligned s1 frames finding state_seq
\* empty and firing no hard reset, and INCORRECT_COUNT as it was before the run;
\* the extremes on which the range test of a full sequence ran
EdgeMon(m, st, th, in, r) ==
    LET g == Given(in, th)
        resting == /\ g.kind = "aligned" /\ g.current_state = "s1"
                   /\ st.state_seq = <<>>
                   /\ ~r.hard_reset
        st2 == TrackRange(st, in.hip_vertical)
    IN  [m EXCEPT !.rest = IF resting
                           THEN [k |-> @.k + 1, base |-> @.base]
                           ELSE [k |-> 0, base |-> r.st.INCORRECT_COUNT],
                  !.tested = IF /\ g.kind = "aligned" /\ g.current_state = "s1"
                                /\ have_full_seq(st.state_seq)
                             THEN Some(<<st2.rep_min_angle[1], st2.rep_max_angle[1]>>)
                             ELSE @,
                  !.held   = IF /\ g.kind = "aligned" /\ g.current_state = "s1"
                                /\ have_full_seq(st.state_seq)
                             THEN Some(<<st.rep_min_angle[1], st.rep_max_angle[1]>>)
                             ELSE @]

EdgeCall(in) ==
    /\ Counted
    /\ Call(in)
    /\ mon' = EdgeMon(mon, state_tracker, thresholds, in,
                      process(state_tracker, thresholds, in))

EdgeNoLandmarksFrame == \E in \in NoLandmarkInputs(DtEdge) : EdgeCall(in)

EdgeMisalignedFrame == \E in \in MisalignedInputs(DtEdge) : EdgeCall(in)

EdgeAlignedFrame == \E in \in AlignedInputs(HipEdge, FormEdge, DtEdge) : EdgeCall(in)

NextEdge == EdgeNoLandmarksFrame \/ EdgeMisalignedFrame \/ EdgeAlignedFrame

SpecEdge == Init /\ [][NextEdge]_vars

-----------------------------------------------------------------------------
(* SpecClear: runs of calls long enough for the banner TTL, with the frames
   that clear banner flags before it: s3, s1 and the hard resets *)

\* aligned s1 frames resolved between two hard resets
MaxResolved == 2
\* calls at one instant; a call without landmarks may come 15 s later
DtClear == {0}
DtLost == {0, 150}
\* raising and at the top with a bent knee and an arched back, at rest in
\* good form
ClearInputs ==
    {in \in AlignedInputs({5, 30, 80}, {<<30, 30>>, <<10, 10>>}, DtClear) :
        in.hip_vertical \in {30, 80} <=> in.knee_flexion = 30}

\* what cleared, in this call, a flag whose counter was running
ClearedBy(st, th, in, r) ==
    LET g  == Given(in, th)
        al == g.kind = "aligned"
        cs == g.current_state
        running(i) == st.DISPLAY_TEXT[i] /\ st.COUNT_FRAMES[i] > 0
    IN  IF r.hard_reset
        THEN IF \E i \in Feedback : running(i) THEN {"_hard_reset_all"} ELSE {}
        ELSE IF ~al THEN {}
        ELSE IF cs = "s1"
        THEN IF \E i \in Feedback : running(i) THEN {"_reset_live_flags"} ELSE {}
        ELSE (IF cs = "s3" /\ (running(0) \/ running(1)) THEN {"s3"} ELSE {})
             \cup
             (IF \E i \in Feedback :
                    /\ running(i) /\ ~(cs = "s3" /\ i \in {0, 1})
                    /\ ~r.st.DISPLAY_TEXT[i]
              THEN {"TTL"} ELSE {})

ClearMon(m, st, th, in, r) ==
    [m EXCEPT !.cleared = @ \cup ClearedBy(st, th, in, r)]

ClearCall(in) ==
    /\ Call(in)
    /\ mon' = ClearMon(mon, state_tracker, thresholds, in,
                       process(state_tracker, thresholds, in))
    /\ UNCHANGED nframes

ClearNoLandmarksFrame == \E in \in NoLandmarkInputs(DtLost) : ClearCall(in)

ClearMisalignedFrame == \E in \in MisalignedInputs(DtClear) : ClearCall(in)

ClearAlignedFrame ==
    \E in \in ClearInputs :
        /\ Given(in, thresholds).current_state = "s1"
              => CORRECT_COUNT + INCORRECT_COUNT < MaxResolved
        /\ ClearCall(in)

NextClear == ClearNoLandmarksFrame \/ ClearMisalignedFrame \/ ClearAlignedFrame

SpecClear == Init /\ [][NextClear]_vars

-----------------------------------------------------------------------------
(* C1 *)

\* C1 as claimed: a session that ran s1, s2, s3, s2, s1 from its first call,
\* with a dwell in s3 of at least the profile's HOLD_SEC, no angle beyond the
\* knee and torso limits on a frame that tests them (the frames classified s1
\* and s3 do not) and a range of at least REP_MIN_RANGE (it spans the NORMAL
\* and the PASS band), has counted one CORRECT rep and no INCORRECT.
C1_Claimed ==
    ( /\ mon.path = "done"
      /\ mon.top_dwell >= thresholds.HOLD_SEC
      /\ ~mon.viol
      /\ thresholds.HIP_KNEE_VERT.PASS[1] - thresholds.HIP_KNEE_VERT.NORMAL[2]
            >= thresholds.REP_MIN_RANGE )
    => (CORRECT_COUNT = 1 /\ INCORRECT_COUNT = 0)

-----------------------------------------------------------------------------
(* C2 *)

\* the four conditions of a CORRECT rep as they stand when an s1 frame is
\* resolved: the drop from s3 is latched and the frame's angle is in the range
CorrectConditions ==
    /\ state_tracker.state_seq = <<"s2", "s3", "s2">>
    /\ ~(state_tracker.INCORRECT_POSTURE \/ state_tracker.prev_state = "s3")
    /\ state_tracker.s3_hold_ok
    /\ range_ok(TrackRange(state_tracker, frame'.hip_vertical), thresholds)

CountedCorrect ==
    /\ CORRECT_COUNT' = CORRECT_COUNT + 1
    /\ INCORRECT_COUNT' = INCORRECT_COUNT
    /\ play_sound' = ToString(CORRECT_COUNT')

CountedIncorrect ==
    /\ INCORRECT_COUNT' = INCORRECT_COUNT + 1
    /\ CORRECT_COUNT' = CORRECT_COUNT
    /\ play_sound' = "incorrect"

\* C2 as claimed: every aligned frame classified s1 counts a CORRECT rep if
\* and only if the four conditions hold, and an INCORRECT one otherwise; one
\* counter changes, by one.
C2_Claimed ==
    [][AlignedAs("s1") =>
         IF CorrectConditions THEN CountedCorrect ELSE CountedIncorrect]_vars

\* C2 as amended: every aligned frame classified s1 in which no hard reset
\* fires counts a CORRECT rep if and only if the four conditions hold, and an
\* INCORRECT one otherwise; one counter changes, by one.
C2_Resolution ==
    [][(AlignedAs("s1") /\ ~hard_reset') =>
         IF CorrectConditions THEN CountedCorrect ELSE CountedIncorrect]_vars

\* an s1 frame has just counted a CORRECT rep
C2_Witness ==
    /\ frame.kind = "aligned" /\ frame.current_state = "s1"
    /\ ~hard_reset
    /\ play_sound = "1" /\ CORRECT_COUNT = 1

-----------------------------------------------------------------------------
(* C3 *)

NotAppended ==
    (AlignedAs("s3") /\ ~In("s2", state_tracker.state_seq))
        => ~In("s3", state_tracker'.state_seq)

NotCorrect ==
    /\ CORRECT_COUNT' <= CORRECT_COUNT
    /\ hard_reset' \/ CountedIncorrect

\* C3 as claimed: an s3 frame while state_seq has no s2 appends nothing, and
\* the next s1 frame is resolved INCORRECT whatever came in between.
C3_Claimed ==
    [][/\ NotAppended
       /\ (AlignedAs("s1") /\ mon.early # "no") => NotCorrect]_vars

\* C3 as amended: an s3 frame while state_seq has no s2 appends nothing, and
\* the next s1 frame is resolved INCORRECT unless an s2 frame and after it
\* an s3 frame came in between.
C3_EarlyTop ==
    [][/\ NotAppended
       /\ (AlignedAs("s1") /\ mon.early \in {"pending", "s2seen"}) => NotCorrect]_vars

\* an attempt that reached s3 before s2, and s2 after it, was resolved INCORRECT
C3_Witness ==
    /\ frame.kind = "aligned" /\ frame.current_state = "s1"
    /\ mon.at_s1.early = "s2seen"
    /\ play_sound = "incorrect"

-----------------------------------------------------------------------------
(* C4 *)

\* C4: after an s3 frame that fires no hard reset, s3_hold_ok is set exactly
\* if it was set before or the frames have been classified s3 continuously
\* for at least the profile's HOLD_SEC.
C4_Claimed ==
    [][(AlignedAs("s3") /\ ~hard_reset') =>
         (state_tracker'.s3_hold_ok <=>
            (state_tracker.s3_hold_ok \/ mon'.s3_run[1] >= thresholds.HOLD_SEC))]_vars

-----------------------------------------------------------------------------
(* C5 *)

\* C5: every s2 frame (its angle is below the PASS band) that fires no hard
\* reset draws RAISE HIGHER; and an s1 frame that follows s2 frames and no s3
\* frame counts the attempt INCORRECT, after RAISE HIGHER was drawn in it.
C5_RaiseHigher ==
    [][/\ ( /\ AlignedAs("s2")
            /\ frame'.hip_vertical < thresholds.HIP_KNEE_VERT.PASS[1]
            /\ ~hard_reset' ) => 2 \in banners'
       /\ (AlignedAs("s1") /\ "s2" \in mon.seen /\ "s3" \notin mon.seen)
            => (CountedIncorrect /\ mon.raised2)]_vars

\* an attempt that saw s2 and never s3 was counted INCORRECT
C5_Witness ==
    /\ frame.kind = "aligned" /\ frame.current_state = "s1"
    /\ "s2" \in mon.at_s1.seen /\ "s3" \notin mon.at_s1.seen
    /\ play_sound = "incorrect" /\ INCORRECT_COUNT >= 1

-----------------------------------------------------------------------------
(* C6 *)

\* C6 as claimed: after a call that returns 'reset_counters' the session is
\* fully zeroed, prev_state and curr_state None, the anchors at the clock.
C6_Claimed == play_sound = "reset_counters" => Zeroed(state_tracker)

-----------------------------------------------------------------------------
(* C7 *)

Events == {"None", "incorrect", "reset_counters"}

\* C7: a call returns one event; it is 'reset_counters' exactly when the hard
\* reset ran in the call, also when the call resolved a rep; 'incorrect'
\* only when the call raised INCORRECT_COUNT; and otherwise none or the new
\* CORRECT_COUNT, the latter only when the call raised CORRECT_COUNT.
C7_OneEvent ==
    [][/\ hard_reset' <=> play_sound' = "reset_counters"
       /\ play_sound' = "incorrect" => INCORRECT_COUNT' = INCORRECT_COUNT + 1
       /\ play_sound' \notin Events =>
             /\ CORRECT_COUNT' = CORRECT_COUNT + 1
             /\ play_sound' = ToString(CORRECT_COUNT')]_vars

\* a call resolved a rep, at an s1 frame, and fired the hard reset
C7_Witness ==
    /\ frame.kind = "aligned" /\ frame.current_state = "s1"
    /\ hard_reset /\ play_sound = "reset_counters"

-----------------------------------------------------------------------------
(* C8 *)

INACTIVE_TIME == state_tracker.INACTIVE_TIME
INACTIVE_TIME_FRONT == state_tracker.INACTIVE_TIME_FRONT

\* the side-view condition of the call: no landmarks, or an aligned frame
\* classified as the state of the frame before it
SideCondition ==
    \/ frame'.kind = "no_landmarks"
    \/ frame'.kind = "aligned" /\ frame'.current_state = state_tracker.prev_state

\* the front-view condition of the call: offset_angle > OFFSET_THRESH
FrontCondition == frame'.kind = "misaligned"

\* C8: a run of side-view idle calls (no landmarks, or aligned and classified
\* as prev_state) over which the clock advances by INACTIVE_THRESH or more
\* without a hard reset does not exist: the call that completes such a run
\* fires the hard reset; in a call of such a run the hard reset fires exactly
\* if INACTIVE_TIME reaches INACTIVE_THRESH with the time since the call
\* before. Likewise for runs of misaligned calls and INACTIVE_TIME_FRONT,
\* which takes the time since its own anchor.
C8_Inactivity ==
    [][/\ (mon'.side_span # None /\ mon'.side_span[1] >= thresholds.INACTIVE_THRESH)
            => hard_reset'
       /\ (mon'.front_span # None /\ mon'.front_span[1] >= thresholds.INACTIVE_THRESH)
            => hard_reset'
       /\ SideCondition =>
            (hard_reset' <=> INACTIVE_TIME + mon'.dt >= thresholds.INACTIVE_THRESH)
       /\ FrontCondition =>
            (hard_reset' <=>
                INACTIVE_TIME_FRONT + (mon'.dt - state_tracker.start_inactive_time_front)
                    >= thresholds.INACTIVE_THRESH)]_vars

\* the clock has advanced by INACTIVE_THRESH over a run of calls without
\* landmarks, and the last of them has fired the hard reset
C8_Witness ==
    /\ frame.kind = "no_landmarks"
    /\ mon.side_span # None /\ mon.side_span[1] >= thresholds.INACTIVE_THRESH
    /\ hard_reset /\ play_sound = "reset_counters"

-----------------------------------------------------------------------------
(* C9 *)

SideAccumulates ==
    /\ SideCondition =>
         \/ INACTIVE_TIME' >= INACTIVE_TIME
         \/ hard_reset' /\ INACTIVE_TIME' = 0
    /\ ~SideCondition => INACTIVE_TIME' = 0
    /\ hard_reset' => INACTIVE_TIME' = 0

FrontAccumulates ==
    /\ FrontCondition =>
         \/ INACTIVE_TIME_FRONT' >= INACTIVE_TIME_FRONT
         \/ hard_reset' /\ INACTIVE_TIME_FRONT' = 0
    /\ hard_reset' => INACTIVE_TIME_FRONT' = 0

\* C9 as claimed: each accumulator does not decrease in a call in which its
\* condition holds, and is 0 after a call in which its condition does not
\* hold and after a call that fires the hard reset.
C9_Claimed ==
    [][/\ SideAccumulates
       /\ FrontAccumulates
       /\ ~FrontCondition => INACTIVE_TIME_FRONT' = 0]_vars

\* C9 as amended: the same, but for INACTIVE_TIME_FRONT it is the aligned
\* frame that zeroes it; a frame without landmarks leaves it as it is (or
\* zeroes it with a hard reset).
C9_Accumulators ==
    [][/\ SideAccumulates
       /\ FrontAccumulates
       /\ frame'.kind = "aligned" => INACTIVE_TIME_FRONT' = 0
       /\ frame'.kind = "no_landmarks" =>
             \/ INACTIVE_TIME_FRONT' = INACTIVE_TIME_FRONT
             \/ hard_reset' /\ INACTIVE_TIME_FRONT' = 0]_vars

\* a frame without landmarks has left a running front-view accumulator
C9_Witness ==
    /\ frame.kind = "no_landmarks"
    /\ INACTIVE_TIME_FRONT > 0 /\ INACTIVE_TIME > 0

-----------------------------------------------------------------------------
(* C10 *)

\* C10 as claimed: once the trigger of a banner has stopped, its flag is set
\* at the end of at most CNT_FRAME_THRESH further consecutive calls, of any
\* kind.
C10_Claimed == \A i \in Feedback : mon.stale[i] <= thresholds.CNT_FRAME_THRESH

\* C10 as amended: once the trigger of a banner has stopped, its flag is set
\* at the end of at most CNT_FRAME_THRESH further aligned calls; a call
\* without landmarks or misaligned draws no banner and, unless it fires the
\* hard reset, leaves DISPLAY_TEXT and COUNT_FRAMES as they are.
C10_BannerTTL ==
    [][/\ \A i \in Feedback : mon'.stale_al[i] <= thresholds.CNT_FRAME_THRESH
       /\ frame'.kind # "aligned" =>
            /\ banners' = {}
            /\ \/ hard_reset'
               \/ /\ state_tracker'.DISPLAY_TEXT = state_tracker.DISPLAY_TEXT
                  /\ state_tracker'.COUNT_FRAMES = state_tracker.COUNT_FRAMES]_vars

\* RAISE HIGHER has outlived its trigger by more than CNT_FRAME_THRESH calls,
\* all but one of the aligned calls its TTL allows among them
C10_Witness ==
    /\ state_tracker.DISPLAY_TEXT[2]
    /\ mon.stale[2] > thresholds.CNT_FRAME_THRESH
    /\ mon.stale_al[2] = thresholds.CNT_FRAME_THRESH - 1

-----------------------------------------------------------------------------
(* C11 *)

\* C11: from every reachable session state, the hard reset applied twice
\* with the clock standing still gives the state the hard reset applied once
\* gives, and that state is the zeroed one.
C11_ResetTwice ==
    LET once == _hard_reset_all(state_tracker)
    IN  /\ _hard_reset_all(once) = once
        /\ Zeroed(once)

\* a session with a counted rep and an open attempt, which the hard reset changes
C11_Witness ==
    /\ CORRECT_COUNT >= 1
    /\ state_tracker.state_seq # <<>>
    /\ state_tracker.curr_state # "None"
    /\ _hard_reset_all(state_tracker) # state_tracker

-----------------------------------------------------------------------------
(* C12 *)

\* C12: state_seq is always one of [], [s2], [s2,s3], [s2,s3,s2].
C12_LegalSeq ==
    state_tracker.state_seq \in {<<>>, <<"s2">>, <<"s2", "s3">>, <<"s2", "s3", "s2">>}

\* the full sequence has been built, and the frames go on in s2
C12_Witness ==
    /\ state_tracker.state_seq = <<"s2", "s3", "s2">>
    /\ frame.current_state = "s2" /\ state_tracker.prev_state = "s2"

-----------------------------------------------------------------------------
(* C13 *)

\* C13: rep_min_angle and rep_max_angle are set together, and when they are
\* set rep_min_angle <= rep_max_angle.
C13_MinMax ==
    /\ state_tracker.rep_min_angle = None <=> state_tracker.rep_max_angle = None
    /\ state_tracker.rep_min_angle # None =>
          state_tracker.rep_min_angle[1] <= state_tracker.rep_max_angle[1]

\* an attempt whose angle has gone up and come down again
C13_Witness ==
    /\ state_tracker.rep_min_angle # None
    /\ state_tracker.rep_min_angle[1] < state_tracker.rep_max_angle[1]
    /\ frame.kind = "aligned"
    /\ frame.hip_vertical < state_tracker.rep_max_angle[1]

-----------------------------------------------------------------------------
(* C14 *)

\* C14: at the end of every call, the calls that fire a hard reset included,
\* a banner whose DISPLAY_TEXT flag is not set has COUNT_FRAMES 0.
C14_CountZero ==
    \A i \in Feedback :
        ~state_tracker.DISPLAY_TEXT[i] => state_tracker.COUNT_FRAMES[i] = 0

\* in one session an s3 frame, the resolution of an s1 frame, the TTL and a
\* hard reset have each cleared a flag whose counter was running; the last of
\* them was the hard reset
C14_Witness ==
    /\ mon.cleared = {"s3", "_reset_live_flags", "TTL", "_hard_reset_all"}
    /\ hard_reset
    /\ \A i \in Feedback :
          ~state_tracker.DISPLAY_TEXT[i] /\ state_tracker.COUNT_FRAMES[i] = 0

-----------------------------------------------------------------------------
(* C15 *)

\* C15: the counters are never negative; a call that fires the hard reset
\* leaves both at 0, every other call leaves neither smaller than it was.
C15_Monotonic ==
    [][/\ CORRECT_COUNT' >= 0 /\ INCORRECT_COUNT' >= 0
       /\ hard_reset' => (CORRECT_COUNT' = 0 /\ INCORRECT_COUNT' = 0)
       /\ ~hard_reset' =>
            (CORRECT_COUNT' >= CORRECT_COUNT /\ INCORRECT_COUNT' >= INCORRECT_COUNT)]_vars

\* both counters have grown, and a rep has just been counted CORRECT
C15_Witness ==
    /\ CORRECT_COUNT >= 1 /\ INCORRECT_COUNT >= 1
    /\ play_sound = ToString(CORRECT_COUNT)

-----------------------------------------------------------------------------
(* C16 *)

\* the fields of the rep attempt
Attempt(st) ==
    <<st.CORRECT_COUNT, st.INCORRECT_COUNT, st.state_seq, st.prev_state, st.curr_state,
      st.rep_min_angle, st.rep_max_angle, st.s3_hold_ok, st.INCORRECT_POSTURE>>

\* C16: a call on a frame without landmarks or on a misaligned frame that
\* fires no hard reset returns no event and leaves the counters and the rep
\* attempt as they are; on a misaligned frame INACTIVE_TIME is 0 afterwards.
C16_ShortCircuit ==
    [][/\ (frame'.kind \in {"no_landmarks", "misaligned"} /\ ~hard_reset') =>
            /\ play_sound' = "None"
            /\ Attempt(state_tracker') = Attempt(state_tracker)
       /\ frame'.kind = "misaligned" => INACTIVE_TIME' = 0]_vars

\* a frame without landmarks in the middle of an attempt that has its hold
C16_Witness ==
    /\ frame.kind = "no_landmarks" /\ ~hard_reset
    /\ state_tracker.state_seq = <<"s2", "s3">>
    /\ state_tracker.s3_hold_ok
    /\ play_sound = "None"

-----------------------------------------------------------------------------
(* C17 *)

\* C17 as claimed: an aligned frame classified None leaves state_seq and
\* the counters as they are and returns no correct or incorrect event.
C17_Claimed ==
    [][AlignedAs("None") =>
         /\ state_tracker'.state_seq = state_tracker.state_seq
         /\ CORRECT_COUNT' = CORRECT_COUNT /\ INCORRECT_COUNT' = INCORRECT_COUNT
         /\ play_sound' \in {"None", "reset_counters"}]_vars

\* C17 as amended: an aligned frame classified None returns no correct or
\* incorrect event, and if it fires no hard reset it leaves state_seq and the
\* counters as they are; if it fires the hard reset (the frame before was
\* unclassified too) state_seq is emptied and the counters are zeroed.
C17_Unclassified ==
    [][AlignedAs("None") =>
         /\ play_sound' \in {"None", "reset_counters"}
         /\ ~hard_reset' =>
               /\ state_tracker'.state_seq = state_tracker.state_seq
               /\ CORRECT_COUNT' = CORRECT_COUNT /\ INCORRECT_COUNT' = INCORRECT_COUNT
         /\ hard_reset' =>
               /\ state_tracker.prev_state = "None"
               /\ state_tracker'.state_seq = <<>>
               /\ CORRECT_COUNT' = 0 /\ INCORRECT_COUNT' = 0]_vars

\* an unclassified frame in an open attempt of a session with a count
C17_Witness ==
    /\ frame.kind = "aligned" /\ frame.current_state = "None" /\ ~hard_reset
    /\ state_tracker.state_seq # <<>>
    /\ INCORRECT_COUNT >= 1

-----------------------------------------------------------------------------
(* C18 *)

\* the states a frame can be classified as
States == {"s1", "s2", "s3", "None"}

\* the appends as C18 words them
ClaimedUpdate(state_seq, state) ==
    IF /\ state = "s2"
       /\ \/ Count(state_seq, "s3") = 0 /\ Count(state_seq, "s2") = 0
          \/ Count(state_seq, "s3") = 1 /\ Count(state_seq, "s2") = 1
    THEN Append(state_seq, "s2")
    ELSE IF state = "s3" /\ Count(state_seq, "s3") = 0 /\ Count(state_seq, "s2") >= 1
    THEN Append(state_seq, "s3")
    ELSE state_seq

\* C18: on every state_seq a session reaches, _update_state_sequence appends
\* s2 for a frame classified s2 exactly if state_seq has no s3 and no s2, or
\* one s3 and one s2; appends s3 for a frame classified s3 exactly if
\* state_seq has no s3 and has an s2; and appends nothing otherwise. A frame
\* classified s2, s3 or None that fires no hard reset leaves state_seq so.
C18_Appends ==
    [][/\ \A state \in States :
            _update_state_sequence(state_tracker'.state_seq, state)
                = ClaimedUpdate(state_tracker'.state_seq, state)
       /\ ( /\ frame'.kind = "aligned"
            /\ frame'.current_state \in {"s2", "s3", "None"}
            /\ ~hard_reset' ) =>
            state_tracker'.state_seq
                = ClaimedUpdate(state_tracker.state_seq, frame'.current_state)]_vars

\* the frame that came down from s3 has appended the second s2
C18_Witness ==
    /\ frame.kind = "aligned" /\ frame.current_state = "s2"
    /\ state_tracker.state_seq = <<"s2", "s3", "s2">>
    /\ state_tracker.s3_enter_time = None /\ state_tracker.rep_max_angle # None
    /\ state_tracker.rep_max_angle[1] > frame.hip_vertical

-----------------------------------------------------------------------------
(* C19 *)

\* C19: a call that increments CORRECT_COUNT after an earlier call did, with
\* no hard reset since, comes after frames classified s2, then s3, then s2
\* that followed the earlier call; so the s1 frames that follow a counted
\* rep count no second one.
C19_OncePerPass ==
    [][(/\ CORRECT_COUNT' = CORRECT_COUNT + 1
        /\ ~hard_reset'
        /\ mon.pass # "none") => mon.pass = "back"]_vars

\* a second rep has been counted after the first, with no hard reset between
C19_Witness ==
    /\ CORRECT_COUNT = 2
    /\ mon.pass = "counted"
    /\ play_sound = "2"

-----------------------------------------------------------------------------
(* C20 *)

\* C20: s3_hold_ok, once set, stays set in every call that is not an s1
\* frame and fires no hard reset; an aligned frame of another state than s3
\* leaves s3_enter_time cleared; and the s1 frame still finds the flag: with
\* the other conditions of a CORRECT rep it counts one.
C20_HoldLatched ==
    [][/\ (state_tracker.s3_hold_ok /\ ~hard_reset' /\ ~AlignedAs("s1"))
            => state_tracker'.s3_hold_ok
       /\ (frame'.kind = "aligned" /\ frame'.current_state # "s3")
            => state_tracker'.s3_enter_time = None
       /\ (AlignedAs("s1") /\ ~hard_reset' /\ CorrectConditions)
            => CountedCorrect]_vars

\* the frame that left s3 for s2 has cleared the timer and kept the hold
C20_Witness ==
    /\ frame.kind = "aligned" /\ frame.current_state = "s2"
    /\ state_tracker.state_seq = <<"s2", "s3", "s2">>
    /\ state_tracker.s3_hold_ok
    /\ state_tracker.s3_enter_time = None

-----------------------------------------------------------------------------
(* C21 *)

\* C21: an aligned frame not classified s1 or s3 that is given a knee or torso
\* angle beyond its limit leaves INCORRECT_POSTURE true (unless it fires a hard
\* reset); once true, INCORRECT_POSTURE stays true over every call, of any
\* kind, that is not an aligned s1 frame and fires no hard reset; and the
\* aligned s1 frame that finds it true fires no hard reset and counts the rep
\* INCORRECT.
C21_PostureLatched ==
    [][ /\ ( /\ frame'.kind = "aligned"
             /\ frame'.current_state \notin {"s1", "s3"}
             /\ (mon'.knee_over \/ mon'.torso_over)
             /\ ~hard_reset'
             => state_tracker'.INCORRECT_POSTURE )
        /\ ( state_tracker.INCORRECT_POSTURE /\ ~hard_reset' /\ ~AlignedAs("s1")
             => state_tracker'.INCORRECT_POSTURE )
        /\ ( state_tracker.INCORRECT_POSTURE /\ AlignedAs("s1")
             => ~hard_reset' /\ CountedIncorrect ) ]_vars

\* an attempt with the full sequence and the hold complete was spoiled by a
\* torso violation on the way down, resolved INCORRECT by the s1 frame
C21_Witness ==
    /\ frame.kind = "aligned" /\ frame.current_state = "s1"
    /\ mon.entered.INCORRECT_POSTURE
    /\ mon.entered.state_seq = <<"s2", "s3", "s2">>
    /\ mon.entered.s3_hold_ok
    /\ mon.entered.prev_state = "s2"
    /\ play_sound = "incorrect"

-----------------------------------------------------------------------------
(* C22 *)

\* C22: an aligned frame classified s3, whatever knee and torso angle it is
\* given, does not turn INCORRECT_POSTURE from false to true, and leaves
\* DISPLAY_TEXT[0] and DISPLAY_TEXT[1] false: neither banner is drawn.
C22_QuietInS3 ==
    [][ AlignedAs("s3") =>
            /\ (~state_tracker.INCORRECT_POSTURE => ~state_tracker'.INCORRECT_POSTURE)
            /\ ~state_tracker'.DISPLAY_TEXT[0] /\ ~state_tracker'.DISPLAY_TEXT[1]
            /\ banners' \cap {0, 1} = {} ]_vars

\* an s3 frame given a knee and a torso angle beyond their limits, in an
\* attempt with a clean posture
C22_Witness ==
    /\ frame.kind = "aligned" /\ frame.current_state = "s3"
    /\ mon.knee_over /\ mon.torso_over
    /\ state_tracker.state_seq = <<"s2", "s3">>
    /\ ~state_tracker.INCORRECT_POSTURE

-----------------------------------------------------------------------------
(* C23 *)

\* C23: an aligned frame classified s1 that finds prev_state = s3 resolves the
\* rep INCORRECT (INCORRECT_COUNT grows by one, CORRECT_COUNT stays, the event
\* is 'incorrect'), whatever state_seq, the hold flag and the range are, and
\* fires no hard reset.
C23_ControlLowering ==
    [][ AlignedAs("s1") /\ state_tracker.prev_state = "s3"
            => ~hard_reset' /\ CountedIncorrect ]_vars

\* the full sequence, the hold complete and a clean posture, then one more s3
\* frame and the drop to s1: counted INCORRECT
C23_Witness ==
    /\ frame.kind = "aligned" /\ frame.current_state = "s1"
    /\ mon.entered.prev_state = "s3"
    /\ mon.entered.state_seq = <<"s2", "s3", "s2">>
    /\ mon.entered.s3_hold_ok
    /\ ~mon.entered.INCORRECT_POSTURE
    /\ INCORRECT_COUNT = 1 /\ CORRECT_COUNT = 0
    /\ play_sound = "incorrect"

-----------------------------------------------------------------------------
(* C24 *)

\* the extremes the claim expects after a frame whose angle is a
ClaimedMin(a) ==
    IF state_tracker.rep_min_angle = None THEN a
    ELSE Min2(state_tracker.rep_min_angle[1], a)

ClaimedMax(a) ==
    IF state_tracker.rep_max_angle = None THEN a
    ELSE Max2(state_tracker.rep_max_angle[1], a)

\* C24: an aligned frame that is not classified s1 and fires no hard reset,
\* processed with 's2' in state_seq (the frame that appends the first s2 and
\* the unclassified frames included), leaves rep_min_angle the minimum and
\* rep_max_angle the maximum of the previous value and the frame's angle;
\* while state_seq holds no 's2' both are null after every call; and the
\* resolving s1 frame of an attempt with the full sequence, the hold complete
\* and a clean posture counts CORRECT exactly when the range with its own
\* angle included reaches REP_MIN_RANGE.
C24_RangeTracking ==
    [][ /\ ( /\ frame'.kind = "aligned" /\ frame'.current_state # "s1"
             /\ ~hard_reset'
             /\ In("s2", state_tracker'.state_seq)
             => /\ state_tracker'.rep_min_angle = Some(ClaimedMin(frame'.hip_vertical))
                /\ state_tracker'.rep_max_angle = Some(ClaimedMax(frame'.hip_vertical)) )
        /\ ( ~In("s2", state_tracker'.state_seq)
             => /\ state_tracker'.rep_min_angle = None
                /\ state_tracker'.rep_max_angle = None )
        /\ ( /\ AlignedAs("s1") /\ ~hard_reset'
             /\ state_tracker.state_seq = <<"s2", "s3", "s2">>
             /\ ~state_tracker.INCORRECT_POSTURE /\ state_tracker.prev_state # "s3"
             /\ state_tracker.s3_hold_ok
             => ( CountedCorrect <=>
                    ClaimedMax(frame'.hip_vertical) - ClaimedMin(frame'.hip_vertical)
                        >= thresholds.REP_MIN_RANGE ) ) ]_vars

\* pro profile: the attempt reached the resolving s1 frame with the extremes
\* 61 and 100, the 100 from an unclassified frame, a range of 39 below
\* REP_MIN_RANGE 40; the angle 20 of the s1 frame made it 80 and the rep
\* counted CORRECT
C24_Witness ==
    /\ frame.kind = "aligned" /\ frame.current_state = "s1"
    /\ frame.hip_vertical = 20
    /\ thresholds.REP_MIN_RANGE = 40
    /\ mon.held = Some(<<61, 100>>)
    /\ mon.tested = Some(<<20, 100>>)
    /\ play_sound = "1"

-----------------------------------------------------------------------------
(* C25 *)

\* C25: after every aligned frame classified s1, whether it counted the rep
\* CORRECT or INCORRECT, state_seq is empty, rep_min_angle, rep_max_angle and
\* s3_enter_time are null, s3_hold_ok and INCORRECT_POSTURE are false, and all
\* four banner flags are false with their counters 0.
C25_ClearedAtS1 ==
    frame.kind = "aligned" /\ frame.current_state = "s1" =>
        /\ state_tracker.state_seq = <<>>
        /\ state_tracker.rep_min_angle = None
        /\ state_tracker.rep_max_angle = None
        /\ state_tracker.s3_enter_time = None
        /\ ~state_tracker.s3_hold_ok
        /\ ~state_tracker.INCORRECT_POSTURE
        /\ \A i \in Feedback :
              ~state_tracker.DISPLAY_TEXT[i] /\ state_tracker.COUNT_FRAMES[i] = 0
        /\ banners = {}

\* the s1 frame that counted a rep CORRECT: it found the full sequence and the
\* hold flag set
C25_Witness ==
    /\ frame.kind = "aligned" /\ frame.current_state = "s1"
    /\ mon.entered.state_seq = <<"s2", "s3", "s2">>
    /\ mon.entered.s3_hold_ok
    /\ play_sound = "1"

-----------------------------------------------------------------------------
(* C26 *)

\* C26: the resolution runs on every aligned frame classified s1, also when
\* state_seq is empty: such a frame either fires a hard reset, which takes
\* the side view to have idled in s1, or grows INCORRECT_COUNT by one, leaves
\* CORRECT_COUNT and returns 'incorrect'; over a run of k consecutive resting
\* s1 frames INCORRECT_COUNT has grown by k.
C26_IdleCounted ==
    [][ /\ ( AlignedAs("s1") /\ state_tracker.state_seq = <<>>
             => IF hard_reset'
                THEN state_tracker.prev_state = "s1"
                ELSE CountedIncorrect )
        /\ ( mon'.rest.k > 0
             => INCORRECT_COUNT' = mon'.rest.base + mon'.rest.k ) ]_vars

\* three resting s1 frames in a row after an attempt was counted: three more
\* INCORRECT
C26_Witness ==
    /\ mon.rest.k = 3
    /\ mon.rest.base = 1
    /\ INCORRECT_COUNT = 4
    /\ play_sound = "incorrect"

-----------------------------------------------------------------------------
(* C27 *)

\* C27: an aligned frame classified s1 that finds state_seq = [s2, s3, s2]
\* finds prev_state different from s1, fires no hard reset and resets the
\* side-view accumulator to 0; when it also finds the conditions of a CORRECT
\* rep it grows CORRECT_COUNT by one and returns the string of the new count,
\* which is at least 1.
C27_CorrectNeverReset ==
    [][ /\ ( AlignedAs("s1") /\ state_tracker.state_seq = <<"s2", "s3", "s2">>
             => /\ state_tracker.prev_state # "s1"
                /\ ~hard_reset'
                /\ INACTIVE_TIME' = 0 )
        /\ ( AlignedAs("s1") /\ CorrectConditions
             => /\ CountedCorrect
                /\ CORRECT_COUNT' >= 1
                /\ play_sound' \notin {"None", "incorrect", "reset_counters"} ) ]_vars

\* a CORRECT rep was counted: no hard reset, the accumulator back at 0, the
\* count standing and s1 committed as prev_state
C27_Witness ==
    /\ frame.kind = "aligned" /\ frame.current_state = "s1"
    /\ CORRECT_COUNT = 1
    /\ play_sound = "1"
    /\ ~hard_reset
    /\ INACTIVE_TIME = 0
    /\ state_tracker.prev_state = "s1"

-----------------------------------------------------------------------------
(* C28 *)

\* C28: for both profiles, whenever an aligned frame classified s1 finds
\* state_seq = [s2, s3, s2], the range test it runs sees a rep_max_angle of at
\* least the low end of PASS and a rep_min_angle of at most the high end of
\* NORMAL, a range of at least REP_MIN_RANGE; so with a clean posture, no drop
\* from s3 and the hold complete the rep counts CORRECT.  While 's3' is in
\* state_seq, rep_max_angle is at least the low end of PASS.
C28_RangeImplied ==
    [][ /\ ( AlignedAs("s1") /\ state_tracker.state_seq = <<"s2", "s3", "s2">>
             => /\ ClaimedMax(frame'.hip_vertical) >= thresholds.HIP_KNEE_VERT.PASS[1]
                /\ ClaimedMin(frame'.hip_vertical) <= thresholds.HIP_KNEE_VERT.NORMAL[2]
                /\ ClaimedMax(frame'.hip_vertical) - ClaimedMin(frame'.hip_vertical)
                       >= thresholds.REP_MIN_RANGE
                /\ range_ok(TrackRange(state_tracker, frame'.hip_vertical), thresholds)
                /\ ( /\ ~state_tracker.INCORRECT_POSTURE
                     /\ state_tracker.prev_state # "s3"
                     /\ state_tracker.s3_hold_ok
                     => CountedCorrect ) )
        /\ ( In("s3", state_tracker'.state_seq)
             => /\ state_tracker'.rep_max_angle # None
                /\ state_tracker'.rep_max_angle[1] >= thresholds.HIP_KNEE_VERT.PASS[1] ) ]_vars

\* the narrowest rep of the beginner profile, from its NORMAL edge 15 to its
\* PASS edge 61, was counted CORRECT
C28_Witness ==
    /\ frame.kind = "aligned" /\ frame.current_state = "s1"
    /\ mon.tested = Some(<<15, 61>>)
    /\ thresholds.REP_MIN_RANGE = 35
    /\ play_sound = "1"

-----------------------------------------------------------------------------
(* C29 *)

\* C29: at the end of every call of process() DISPLAY_TEXT[3] is false and
\* COUNT_FRAMES[3] is 0, and the CONTROL LOWERING banner is not drawn; the
\* RAISE HIGHER flag that the resolution sets is gone as well at the end of
\* the s1 frame that set it.
C29_NeverActive ==
    /\ ~state_tracker.DISPLAY_TEXT[3]
    /\ state_tracker.COUNT_FRAMES[3] = 0
    /\ 3 \notin banners
    /\ ( frame.kind = "aligned" /\ frame.current_state = "s1"
         => /\ ~state_tracker.DISPLAY_TEXT[2]
            /\ state_tracker.COUNT_FRAMES[2] = 0
            /\ 2 \notin banners )

\* the leg dropped from the top straight to s1: the frame that detected it
\* counted the rep INCORRECT and drew no banner
C29_Witness ==
    /\ frame.kind = "aligned" /\ frame.current_state = "s1"
    /\ mon.entered.prev_state = "s3"
    /\ mon.entered.state_seq = <<"s2", "s3">>
    /\ play_sound = "incorrect"
    /\ banners = {}

====
